---- MODULE Spec2Model ----
(***************************************************************************)
(* Model of Docs/Plans/plan-update.py: the plan lifecycle engine.  One     *)
(* action is one invocation of main() on the plan file: load, backup,      *)
(* in-memory updates, archive or write, validation hook, exit status.      *)
(***************************************************************************)
EXTENDS Integers, Sequences, FiniteSets, TLC

VARIABLES
    plan_file,      \* content of the plan file on disk: None, <<document>>, or
                    \* <<document, k>> while only k chunks of it are in the file
    backups,        \* .plan-backups/: day -> None or <<document>>
    completed_dir,  \* Completed/<plan file name>: None or <<document>>
    archive_side,   \* Completed/.plan-backups/ and Completed/Completed/<plan file name>
    temp_file,      \* the mkstemp file of the write in progress
    platform,       \* os.name
    procs,          \* the invocations in progress, step by step
    seen,           \* what an invocation that only reads the plan file got
    today,          \* date.today()
    clock,          \* datetime.now(), one tick per invocation
    last            \* record of the last finished invocation of main()

vars == <<plan_file, backups, completed_dir, archive_side, temp_file, platform,
          procs, seen, today, clock, last>>

\* ------------------------------------------------------------------------
\* Bounds of the model
\* ------------------------------------------------------------------------
MaxClock == 1       \* invocations of main() in one behaviour
MaxDay == 1         \* calendar days after the first one
MaxSteps == 50      \* steps of the phase in the step-derivation specification
MaxSaves == 3       \* invocations of main() in the backup specification
MaxChunks == 2      \* write() calls that put one serialized document into a file
MaxRuns == 6        \* invocations of main() in the workflow-progress specification

\* ------------------------------------------------------------------------
\* Values
\* ------------------------------------------------------------------------
None == <<>>
Some(x) == <<x>>

\* a file that holds only the first k chunks of the serialized document
Partial(doc, k) == <<doc, k>>
IsPartial(content) == Len(content) = 2

VALID_STATUSES == {"not_started", "in_progress", "completed", "blocked"}

\* documents are created outside the engine: a phase may lack the status key
\* or carry a status outside the enum
MissingStatus == "<missing>"
UnknownStatus == "done"

STATUS_TRANSITIONS_Strict(s) ==
    CASE s = "not_started" -> {"in_progress", "blocked"}
      [] s = "in_progress" -> {"completed", "blocked"}
      [] s = "blocked"     -> {"in_progress"}
      [] s = "completed"   -> {}
      [] OTHER             -> {}

\* STATUS_TRANSITIONS.get(s, [])
STATUS_TRANSITIONS(s) ==
    CASE s = "not_started" -> {"in_progress", "blocked", "completed"}
      [] s = "in_progress" -> {"completed", "blocked"}
      [] s = "blocked"     -> {"in_progress", "completed"}
      [] s = "completed"   -> {}
      [] OTHER             -> {}

\* dict.get("status") and dict.get("status", "not_started")
GetStatus(d) == d.status
GetStatusDefault(d) == IF d.status = MissingStatus THEN "not_started" ELSE d.status

\* str(effort) of a number, and a text that float() rejects
EffortStr(e) == [text |-> "number", value |-> e]
EffortText == [text |-> "n/a", value |-> 0]

\* ------------------------------------------------------------------------
\* Python float arithmetic (IEEE-754 binary64, round to nearest, ties to even)
\* A 53-bit significand does not fit TLC's integers, so a significand is kept
\* as three limbs <<hi, mid, lo>> in base Limb, worth hi*Limb^2 + mid*Limb + lo.
\* ------------------------------------------------------------------------
Limb == 2^18

RECURSIVE LeadingZeros(_, _)
\* number of zero bits of k/n (0 < k < n) between the binary point and its first one bit
LeadingZeros(k, n) == IF 2 * k >= n THEN 0 ELSE 1 + LeadingZeros(2 * k, n)

\* number of bits of a positive integer below 2^30
BitLen(v) == CHOOSE b \in 1..30 : 2^(b - 1) <= v /\ v < 2^b

\* limbs + c for a carry c in {0, 1}
AddCarry(x, c) ==
    LET lo  == x[3] + c
        mid == x[2] + lo \div Limb
    IN  <<x[1] + mid \div Limb, mid % Limb, lo % Limb>>

\* limbs shifted right by s bits (0 < s < 18), rounded to nearest, ties to even;
\* sticky tells that nonzero bits lie below the limbs
ShiftRound(x, s, sticky) ==
    LET drop  == x[3] % 2^s
        half  == drop >= 2^(s - 1)
        below == sticky \/ drop % 2^(s - 1) # 0
        lo    == x[3] \div 2^s + (x[2] % 2^s) * (Limb \div 2^s)
        mid   == x[2] \div 2^s + (x[1] % 2^s) * (Limb \div 2^s)
        hi    == x[1] \div 2^s
        up    == half /\ (below \/ lo % 2 = 1)
    IN  AddCarry(<<hi, mid, lo>>, IF up THEN 1 ELSE 0)

\* the double nearest to k / n for integers 0 < k < n;
\* [sig |-> limbs, frac |-> e] stands for sig * 2^-e
TrueDiv(k, n) ==
    LET z  == LeadingZeros(k, n)
        r0 == k * 2^z
        l1 == (r0 * Limb) \div n
        r1 == (r0 * Limb) % n
        l2 == (r1 * Limb) \div n
        r2 == (r1 * Limb) % n
        l3 == (r2 * Limb) \div n
        r3 == (r2 * Limb) % n
    IN  [sig |-> ShiftRound(<<l1, l2, l3>>, 1, r3 # 0), frac |-> z + 53]

\* the double nearest to x * 100
Times100(x) ==
    LET lo  == x.sig[3] * 100
        mid == x.sig[2] * 100 + lo \div Limb
        hi  == x.sig[1] * 100 + mid \div Limb
        s   == BitLen(hi) - 17
    IN  [sig |-> ShiftRound(<<hi, mid % Limb, lo % Limb>>, s, FALSE), frac |-> x.frac - s]

\* int(x) for a double 0 < x < 2^17: truncation toward zero
IntOf(x) == LET e == x.frac - 36 IN IF e > 17 THEN 0 ELSE x.sig[1] \div 2^e

\* int((completed_steps / total_steps) * 100), 0 <= completed_steps <= total_steps
StepCompletion(completed_steps, total_steps) ==
    IF completed_steps = 0 THEN 0
    ELSE IF completed_steps = total_steps THEN 100
    ELSE IntOf(Times100(TrueDiv(completed_steps, total_steps)))

\* ------------------------------------------------------------------------
\* The document held in self.data
\* ------------------------------------------------------------------------
\* Replace phase i (position in the phases array) of the document
WithPhase(data, i, p) == [data EXCEPT !.phases[i] = p]

\* position of the phase that get_phase(phase_num) returns, 0 when it calls error()
PhaseIndex(phases, phase_num) ==
    IF \E i \in 1..Len(phases) : phases[i].number = phase_num
    THEN CHOOSE i \in 1..Len(phases) :
            /\ phases[i].number = phase_num
            /\ \A j \in 1..(i - 1) : phases[j].number # phase_num
    ELSE 0

\* position of the step that get_step returns within a phase, 0 when it calls error()
StepIndex(steps, step_num) ==
    IF \E i \in 1..Len(steps) : steps[i].number = step_num
    THEN CHOOSE i \in 1..Len(steps) :
            /\ steps[i].number = step_num
            /\ \A j \in 1..(i - 1) : steps[j].number # step_num
    ELSE 0

\* One dependency reference, as _check_dependencies_satisfied reads it:
\*   "num"   the reference names phase number n
\*   "skip"  a string that is not a number (named reference), ignored
\*   "raise" "Phase <text>": int() raises ValueError outside the try block
ParseDependency(dep) ==
    IF dep.kind = "str"
    THEN IF dep.phase_prefix
         THEN IF dep.numeric THEN [kind |-> "num", n |-> dep.n] ELSE [kind |-> "raise", n |-> 0]
         ELSE IF dep.numeric THEN [kind |-> "num", n |-> dep.n] ELSE [kind |-> "skip", n |-> 0]
    ELSE [kind |-> "num", n |-> dep.n]

DepInt(n) == [kind |-> "int", phase_prefix |-> FALSE, numeric |-> TRUE, n |-> n]
DepPhaseStr(n) == [kind |-> "str", phase_prefix |-> TRUE, numeric |-> TRUE, n |-> n]
DepNumStr(n) == [kind |-> "str", phase_prefix |-> FALSE, numeric |-> TRUE, n |-> n]
DepName == [kind |-> "str", phase_prefix |-> FALSE, numeric |-> FALSE, n |-> 0]
DepPhaseText == [kind |-> "str", phase_prefix |-> TRUE, numeric |-> FALSE, n |-> 0]

\* the dependency is appended to the blocking list
DependencyBlocks(phases, dep) ==
    LET d == ParseDependency(dep)
        i == PhaseIndex(phases, d.n)
    IN  /\ d.kind = "num"
        /\ i # 0
        /\ GetStatus(phases[i]) # "completed"

\* _check_dependencies_satisfied: raised tells that the loop ended in ValueError,
\* which happens at the first "raise" reference whatever was blocking before it
CheckDependenciesSatisfied(phases, phase) ==
    LET deps == phase.dependencies IN
    [raised    |-> \E k \in 1..Len(deps) : ParseDependency(deps[k]).kind = "raise",
     satisfied |-> \A k \in 1..Len(deps) : ~DependencyBlocks(phases, deps[k])]

EmptyIndexAcc ==
    [completed |-> <<>>, in_progress |-> <<>>, blocked |-> <<>>, not_started |-> <<>>,
     current_in_progress |-> None, next_available |-> None, raised |-> FALSE]

RECURSIVE IndexLoop(_, _, _)
\* the for loop of update_phase_index from position i on
IndexLoop(phases, i, acc) ==
    IF i > Len(phases) \/ acc.raised THEN acc
    ELSE LET phase  == phases[i]
             num    == phase.number
             status == GetStatusDefault(phase)
             chk    == CheckDependenciesSatisfied(phases, phase)
         IN  IndexLoop(phases, i + 1,
               IF status = "completed"
               THEN [acc EXCEPT !.completed = Append(@, num)]
               ELSE IF status = "in_progress"
               THEN [acc EXCEPT !.in_progress = Append(@, num),
                                !.current_in_progress = IF @ = None THEN Some(num) ELSE @]
               ELSE IF status = "blocked"
               THEN [acc EXCEPT !.blocked = Append(@, num)]
               ELSE IF acc.next_available # None
               THEN [acc EXCEPT !.not_started = Append(@, num)]
               ELSE IF chk.raised
               THEN [acc EXCEPT !.not_started = Append(@, num), !.raised = TRUE]
               ELSE [acc EXCEPT !.not_started = Append(@, num),
                                !.next_available = IF chk.satisfied THEN Some(num) ELSE None])

\* update_phase_index: the phase_index object, and whether the computation raised
PhaseIndexOf(phases) ==
    LET acc == IndexLoop(phases, 1, EmptyIndexAcc) IN
    [raised |-> acc.raised,
     index  |-> [total |-> Len(phases),
                 current_in_progress |-> acc.current_in_progress,
                 completed |-> acc.completed,
                 blocked |-> acc.blocked,
                 not_started |-> acc.not_started,
                 next_available |-> acc.next_available]]

RECURSIVE StartLoop(_, _)
\* the second for loop of start_next_phase from position i on:
\* the position of the phase to start, 0 for none, -1 when the check raised
StartLoop(phases, i) ==
    IF i > Len(phases) THEN 0
    ELSE IF GetStatus(phases[i]) = "not_started"
         THEN LET chk == CheckDependenciesSatisfied(phases, phases[i]) IN
              IF chk.raised THEN -1
              ELSE IF chk.satisfied THEN i
              ELSE StartLoop(phases, i + 1)
         ELSE StartLoop(phases, i + 1)

StartNextPhase_Unguarded(data, force) ==
    LET phases == data.phases
        i      == StartLoop(phases, 1)
    IN  IF i = -1 THEN [data |-> data, ok |-> FALSE, raised |-> TRUE]
        ELSE IF i = 0 THEN [data |-> data, ok |-> FALSE, raised |-> FALSE]
        ELSE [data |-> WithPhase(data, i, [phases[i] EXCEPT !.status = "in_progress"]),
              ok |-> TRUE, raised |-> FALSE]

\* start_next_phase: self.force is not consulted
StartNextPhase(data, force) ==
    LET phases == data.phases
        busy   == \E i \in 1..Len(phases) : GetStatus(phases[i]) = "in_progress"
        i      == StartLoop(phases, 1)
    IN  IF busy THEN [data |-> data, ok |-> FALSE, raised |-> FALSE]
        ELSE IF i = -1 THEN [data |-> data, ok |-> FALSE, raised |-> TRUE]
        ELSE IF i = 0 THEN [data |-> data, ok |-> FALSE, raised |-> FALSE]
        ELSE [data |-> WithPhase(data, i, [phases[i] EXCEPT !.status = "in_progress"]),
              ok |-> TRUE, raised |-> FALSE]

\* truthiness of an optional string argument
Truthy(opt) == opt # None /\ opt[1] # ""

CompleteCurrentPhase_Last(data, notes, effort) ==
    LET phases == data.phases
        cur    == {i \in 1..Len(phases) : GetStatus(phases[i]) = "in_progress"}
    IN  IF cur = {} THEN [data |-> data, ok |-> FALSE]
        ELSE LET i == CHOOSE c \in cur : \A d \in cur : d <= c
                 p == [phases[i] EXCEPT
                         !.status = "completed",
                         !.completion_percentage = 100,
                         !.completion_notes = IF Truthy(notes) THEN notes ELSE @,
                         !.actual_effort = IF effort # None THEN Some(EffortStr(effort[1])) ELSE @]
             IN  [data |-> WithPhase(data, i, p), ok |-> TRUE]

\* complete_current_phase
CompleteCurrentPhase(data, notes, effort) ==
    LET phases == data.phases
        cur    == {i \in 1..Len(phases) : GetStatus(phases[i]) = "in_progress"}
    IN  IF cur = {} THEN [data |-> data, ok |-> FALSE]
        ELSE LET i == CHOOSE c \in cur : \A d \in cur : c <= d
                 p == [phases[i] EXCEPT
                         !.status = "completed",
                         !.completion_percentage = 100,
                         !.completion_notes = IF Truthy(notes) THEN notes ELSE @,
                         !.actual_effort = IF effort # None THEN Some(EffortStr(effort[1])) ELSE @]
             IN  [data |-> WithPhase(data, i, p), ok |-> TRUE]

\* ------------------------------------------------------------------------
\* One invocation: the PlanUpdater object, the files it touches, its exit
\* ------------------------------------------------------------------------
Running == 0 - 1

\* m.exit is Running until sys.exit(code); every later statement is skipped
Exited(m) == m.exit # Running

\* self.error(message, exit_code): print and sys.exit(exit_code)
Error(m, kind, exit_code) == [m EXCEPT !.exit = exit_code, !.err = kind]

\* sys.exit(code) in main()
Exit(m, code) == [m EXCEPT !.exit = code]

Log(m, event) == [m EXCEPT !.trace = Append(@, event)]

EmptyData ==
    [phases |-> <<>>, execution_history |-> <<>>, phase_index |-> None,
     metadata |-> [last_updated |-> None, completed_at |-> None,
                   status |-> None, total_actual_effort |-> None]]

\* PlanUpdater.__init__
Load(file, store, archive) ==
    LET m0 == [data |-> EmptyData, plan_file |-> file, backups |-> store,
               completed_dir |-> archive, backup_file |-> None,
               exit |-> Running, err |-> "none", trace |-> <<>>, hook |-> "unused"]
    IN  IF file = None THEN Error(m0, "PlanFileNotFound", 2)
        ELSE IF IsPartial(file) THEN Error(m0, "InvalidJSON", 2)
        ELSE [m0 EXCEPT !.data = file[1]]

CreateBackup_Overwrite(m, day, copy_fails) ==
    IF Exited(m) THEN m
    ELSE IF copy_fails
    THEN Log([m EXCEPT !.backup_file = None], "backup_failed")
    ELSE Log([m EXCEPT !.backup_file = Some(day), !.backups[day] = m.plan_file],
             "backup_created")

\* create_backup
CreateBackup(m, day, copy_fails) ==
    IF Exited(m) THEN m
    ELSE IF m.backups[day] # None
    THEN Log([m EXCEPT !.backup_file = Some(day)], "backup_reused")
    ELSE IF copy_fails
    THEN Log([m EXCEPT !.backup_file = None], "backup_failed")
    ELSE Log([m EXCEPT !.backup_file = Some(day), !.backups[day] = m.plan_file],
             "backup_created")

\* restore_backup
RestoreBackup(m) ==
    IF Exited(m) THEN m
    ELSE IF m.backup_file # None /\ m.backups[m.backup_file[1]] # None
    THEN Log([m EXCEPT !.plan_file = m.backups[m.backup_file[1]]], "restore")
    ELSE Log(m, "restore_skipped")

TransitionAllowed_Forced(current_status, new_status, force) == TRUE

\* validate_status_transition returns without error
TransitionAllowed(current_status, new_status, force) ==
    \/ current_status = new_status
    \/ force
    \/ new_status \in STATUS_TRANSITIONS(current_status)

\* validate_phase_number
ValidPhaseNumber(m, phase_num) == phase_num >= 1 /\ phase_num <= Len(m.data.phases)

\* update_phase_status
UpdatePhaseStatus(m, phase_num, status, notes, force) ==
    IF Exited(m) THEN m
    ELSE IF ~ValidPhaseNumber(m, phase_num) THEN Error(m, "NotFound", 2)
    ELSE IF status \notin VALID_STATUSES THEN Error(m, "InvalidStatus", 2)
    ELSE LET i == PhaseIndex(m.data.phases, phase_num) IN
         IF i = 0 THEN Error(m, "NotFound", 2)
         ELSE LET phase == m.data.phases[i]
                  current_status == GetStatusDefault(phase)
              IN  IF ~TransitionAllowed(current_status, status, force)
                  THEN Error(m, "IllegalTransition", 2)
                  ELSE LET p == [phase EXCEPT
                                   !.status = status,
                                   !.completion_percentage =
                                       IF status = "completed" THEN 100
                                       ELSE IF status = "not_started" THEN 0
                                       ELSE @,
                                   !.completion_notes =
                                       IF status = "completed" /\ Truthy(notes)
                                       THEN notes ELSE @]
                       IN  [m EXCEPT !.data = WithPhase(m.data, i, p)]

\* validate_completion returns without error
ValidCompletion(completion) == completion >= 0 /\ completion <= 100

\* update_phase_completion
UpdatePhaseCompletion(m, phase_num, completion) ==
    IF Exited(m) THEN m
    ELSE IF ~ValidPhaseNumber(m, phase_num) THEN Error(m, "NotFound", 2)
    ELSE IF ~ValidCompletion(completion) THEN Error(m, "InvalidCompletion", 2)
    ELSE LET i == PhaseIndex(m.data.phases, phase_num) IN
         IF i = 0 THEN Error(m, "NotFound", 2)
         ELSE [m EXCEPT !.data.phases[i].completion_percentage = completion]

\* validate_effort returns without error
ValidEffort(effort) == effort > 0

\* update_phase_effort
UpdatePhaseEffort(m, phase_num, effort) ==
    IF Exited(m) THEN m
    ELSE IF ~ValidPhaseNumber(m, phase_num) THEN Error(m, "NotFound", 2)
    ELSE IF ~ValidEffort(effort) THEN Error(m, "InvalidEffort", 2)
    ELSE LET i == PhaseIndex(m.data.phases, phase_num) IN
         IF i = 0 THEN Error(m, "NotFound", 2)
         ELSE [m EXCEPT !.data.phases[i].actual_effort = Some(EffortStr(effort))]

CompletedSteps(steps) == Cardinality({k \in 1..Len(steps) : GetStatus(steps[k]) = "completed"})

\* update_step_status
UpdateStepStatus(m, phase_num, step_num, status, force) ==
    IF Exited(m) THEN m
    ELSE IF ~ValidPhaseNumber(m, phase_num) THEN Error(m, "NotFound", 2)
    ELSE LET i == PhaseIndex(m.data.phases, phase_num) IN
         IF i = 0 THEN Error(m, "NotFound", 2)
         ELSE LET steps == m.data.phases[i].steps
                  j     == StepIndex(steps, step_num)
              IN  IF step_num < 1 \/ step_num > Len(steps) THEN Error(m, "NotFound", 2)
                  ELSE IF status \notin VALID_STATUSES THEN Error(m, "InvalidStatus", 2)
                  ELSE IF j = 0 THEN Error(m, "NotFound", 2)
                  ELSE IF ~TransitionAllowed(GetStatusDefault(steps[j]), status, force)
                  THEN Error(m, "IllegalTransition", 2)
                  ELSE LET steps2 == [steps EXCEPT ![j].status = status]
                           total_steps == Len(steps2)
                       IN  [m EXCEPT !.data.phases[i].steps = steps2,
                                     !.data.phases[i].completion_percentage =
                                         IF total_steps > 0
                                         THEN StepCompletion(CompletedSteps(steps2), total_steps)
                                         ELSE @]

\* the numbers of the phases with the given status, in declaration order
PhasesWithStatus(phases, status) ==
    LET sel == SelectSeq(phases, LAMBDA p : GetStatus(p) = status)
    IN  [k \in 1..Len(sel) |-> sel[k].number]

AddExecutionHistory_Prepend(m, context, context_exists, notes, day) ==
    IF Exited(m) THEN m
    ELSE IF ~context_exists THEN Error(m, "ContextNotFound", 2)
    ELSE LET completed_phases == PhasesWithStatus(m.data.phases, "completed")
             in_progress_phases == PhasesWithStatus(m.data.phases, "in_progress")
             entry == [date |-> day, context_file |-> context, notes |-> notes,
                       phases_completed |->
                           IF completed_phases # <<>> THEN Some(completed_phases) ELSE None,
                       phases_in_progress |->
                           IF in_progress_phases # <<>> THEN Some(in_progress_phases)
                           ELSE None]
         IN  [m EXCEPT !.data.execution_history = <<entry>> \o @]

\* add_execution_history
AddExecutionHistory(m, context, context_exists, notes, day) ==
    IF Exited(m) THEN m
    ELSE IF ~context_exists THEN Error(m, "ContextNotFound", 2)
    ELSE LET completed_phases == PhasesWithStatus(m.data.phases, "completed")
             in_progress_phases == PhasesWithStatus(m.data.phases, "in_progress")
             entry == [date |-> day, context_file |-> context, notes |-> notes,
                       phases_completed |->
                           IF completed_phases # <<>> THEN Some(completed_phases) ELSE None,
                       phases_in_progress |->
                           IF in_progress_phases # <<>> THEN Some(in_progress_phases)
                           ELSE None]
         IN  [m EXCEPT !.data.execution_history = Append(@, entry)]

WritePlan_Always(m, now) ==
    LET idx == PhaseIndexOf(m.data.phases)
        d   == [m.data EXCEPT !.metadata.last_updated = Some(now),
                              !.phase_index = Some(idx.index)]
    IN  IF m.plan_file = None THEN m
        ELSE Log([m EXCEPT !.data = d, !.plan_file = Some(d)], "write")

\* write_plan: update_metadata, update_phase_index, temp file, rename.
\* An exception of update_phase_index leaves write_plan before the temp file exists.
WritePlan(m, now) ==
    IF Exited(m) THEN m
    ELSE LET idx == PhaseIndexOf(m.data.phases) IN
         IF idx.raised
         THEN Error([m EXCEPT !.data.metadata.last_updated = Some(now)], "Unexpected", 2)
         ELSE LET d == [m.data EXCEPT !.metadata.last_updated = Some(now),
                                      !.phase_index = Some(idx.index)]
              IN  Log([m EXCEPT !.data = d, !.plan_file = Some(d)], "write")

RECURSIVE TotalEffort(_, _)
\* the summing loop of check_and_archive_if_complete from position i on
TotalEffort(phases, i) ==
    IF i > Len(phases) THEN 0
    ELSE LET e == phases[i].actual_effort IN
         (IF e # None /\ e[1].text = "number" THEN e[1].value ELSE 0)
           + TotalEffort(phases, i + 1)

\* check_and_archive_if_complete; on success main() calls sys.exit(0)
CheckAndArchiveIfComplete(m, now) ==
    IF Exited(m) THEN m
    ELSE LET phases == m.data.phases IN
         IF phases = <<>> \/ \E i \in 1..Len(phases) : GetStatus(phases[i]) # "completed"
         THEN m
         ELSE LET total_effort == TotalEffort(phases, 1)
                  d == [m.data EXCEPT
                          !.metadata.completed_at = Some(now),
                          !.metadata.status = Some("completed"),
                          !.metadata.total_actual_effort =
                              IF total_effort > 0 THEN Some(EffortStr(total_effort)) ELSE @]
                  w == WritePlan([m EXCEPT !.data = d], now)
              IN  IF Exited(w) THEN w
                  ELSE Exit(Log([w EXCEPT !.completed_dir = w.plan_file,
                                          !.plan_file = None], "archive"), 0)

RunValidation_FailClosed(hook) ==
    IF hook = "absent" \/ hook = "unstartable" THEN 1
    ELSE IF hook = "blocking" THEN 2
    ELSE IF hook = "warnings" THEN 1
    ELSE 0

\* run_validation: the hook's exit code; 0 when the hook is absent or cannot be run
RunValidation(hook) ==
    IF hook = "absent" \/ hook = "unstartable" THEN 0
    ELSE IF hook = "blocking" THEN 2
    ELSE IF hook = "warnings" THEN 1
    ELSE 0

\* ------------------------------------------------------------------------
\* main()
\* ------------------------------------------------------------------------
\* the parsed command line; phase and step are 0 when absent (main() only tests
\* their truth value, so --phase 0 reads as absent)
NoArgs ==
    [force |-> FALSE, no_backup |-> FALSE, start_next |-> FALSE,
     complete_current |-> FALSE, completion_notes |-> None, phase |-> 0, step |-> 0,
     status |-> None, completion |-> None, actual_effort |-> None,
     add_history |-> FALSE, context |-> None, notes |-> None]

\* the parser.error() calls made before the plan file is opened
UsageError(args) ==
    \/ args.step # 0 /\ args.phase = 0
    \/ Truthy(args.context) /\ ~args.add_history
    \/ Truthy(args.notes) /\ ~args.add_history
    \/ args.add_history /\ ~Truthy(args.context)

HasUpdates(args) ==
    \/ args.status # None
    \/ args.completion # None
    \/ args.actual_effort # None
    \/ args.add_history
    \/ args.start_next
    \/ args.complete_current

\* "if args.start_next:" block
DoStartNext(m, args) ==
    IF Exited(m) \/ ~args.start_next THEN m
    ELSE LET r == StartNextPhase(m.data, args.force) IN
         IF r.raised THEN Error(m, "Unexpected", 2)
         ELSE IF ~r.ok THEN Exit(m, 1)
         ELSE [m EXCEPT !.data = r.data]

\* "if args.complete_current:" block
DoCompleteCurrent(m, args) ==
    IF Exited(m) \/ ~args.complete_current THEN m
    ELSE LET r == CompleteCurrentPhase(m.data, args.completion_notes, args.actual_effort) IN
         IF ~r.ok THEN Exit(m, 1)
         ELSE [m EXCEPT !.data = r.data]

\* "if args.phase:" block
DoPhaseUpdates(m, args) ==
    IF Exited(m) \/ args.phase = 0 THEN m
    ELSE IF args.step # 0
    THEN IF args.status # None
         THEN UpdateStepStatus(m, args.phase, args.step, args.status[1], args.force)
         ELSE m
    ELSE LET a == IF args.status # None
                  THEN UpdatePhaseStatus(m, args.phase, args.status[1],
                                         args.completion_notes, args.force)
                  ELSE m
             b == IF args.completion # None
                  THEN UpdatePhaseCompletion(a, args.phase, args.completion[1])
                  ELSE a
         IN  IF args.actual_effort # None
             THEN UpdatePhaseEffort(b, args.phase, args.actual_effort[1])
             ELSE b

\* "if args.add_history:" block
DoAddHistory(m, args, env, day) ==
    IF Exited(m) \/ ~args.add_history THEN m
    ELSE AddExecutionHistory(m, args.context[1], env.context_exists,
                             IF args.notes = None THEN "" ELSE args.notes[1], day)

\* run_validation and the exit-code branches that end main()
Finish(m, hook) ==
    IF Exited(m) THEN m
    ELSE LET exit_code == RunValidation(hook)
             v == Log([m EXCEPT !.hook = hook], "validate")
         IN  IF exit_code = 2
             THEN Exit(RestoreBackup(Error(v, "ValidationFailed", 0)), 2)
             ELSE IF exit_code = 1 THEN Exit(v, 1)
             ELSE Exit(v, 0)

\* main() from the argument checks to the archive check: the PlanUpdater when
\* write_plan is about to be called, or when the process has exited before
MainUpdates(args, env, file, store, archive, day, now) ==
    IF UsageError(args)
    THEN Error([Load(file, store, archive) EXCEPT !.data = EmptyData], "Usage", 2)
    ELSE LET m0 == Load(file, store, archive)
             m1 == IF ~Exited(m0) /\ ~HasUpdates(args) THEN Error(m0, "Usage", 2) ELSE m0
             m2 == IF args.no_backup THEN m1 ELSE CreateBackup(m1, day, env.copy_fails)
             m3 == DoStartNext(m2, args)
             m4 == DoCompleteCurrent(m3, args)
             m5 == DoPhaseUpdates(m4, args)
             m6 == DoAddHistory(m5, args, env, day)
         IN  CheckAndArchiveIfComplete(m6, now)

\* main() from the argument checks to write_plan: the PlanUpdater when the
\* validation hook is about to run, or when the process has exited before
MainBody(args, env, file, store, archive, day, now) ==
    WritePlan(MainUpdates(args, env, file, store, archive, day, now), now)

\* main(): the PlanUpdater after the process has exited
Main(args, env, file, store, archive, day, now) ==
    Finish(MainBody(args, env, file, store, archive, day, now), env.hook)

\* ------------------------------------------------------------------------
\* State machine: every action is one run of the program
\* ------------------------------------------------------------------------
Days == 0..MaxDay

\* phase and step numbers given on the command line
PhaseArgs == 1..3
StepArgs == 1..2
CompletionArgs == {0 - 1, 0, 50, 100, 101}
EffortArgs == {0, 3}
NotesArgs == {None, Some("done")}

\* what run_validation finds: no hook file, a hook that cannot be run, or a hook
\* that exits with 0, 1 or 2
HookVerdicts == {"passes", "warnings", "blocking"}
Hooks == HookVerdicts \cup {"absent", "unstartable"}

\* the environment of one run: the hook, whether copying the backup fails,
\* whether the context file named by --context exists
Envs == [hook : HookVerdicts, copy_fails : {FALSE}, context_exists : {TRUE}]
AllEnvs == [hook : Hooks, copy_fails : BOOLEAN, context_exists : {TRUE}]

Step(n, status) == [number |-> n, status |-> status]

Phase(n, status, completion, deps, steps) ==
    [number |-> n, status |-> status, completion_percentage |-> completion,
     actual_effort |-> None, completion_notes |-> None,
     steps |-> steps, dependencies |-> deps]

Plan(phases) == [EmptyData EXCEPT !.phases = phases]

\* plan documents as they are created from the template and edited by hand
PlanA ==
    Plan(<< Phase(1, "completed", 100, <<>>,
                  << Step(1, "completed"), Step(2, "completed") >>),
            Phase(2, "not_started", 0, << DepInt(1) >>,
                  << Step(1, "not_started"), Step(2, "not_started") >>),
            Phase(3, "not_started", 0, << DepPhaseStr(2), DepName >>,
                  << Step(1, "not_started") >>) >>)

PlanB ==
    Plan(<< Phase(1, "in_progress", 50, << DepInt(7) >>,
                  << Step(1, "completed"), Step(2, "in_progress") >>),
            Phase(2, "blocked", 0, << DepNumStr(1) >>,
                  << Step(1, "not_started"), Step(2, "blocked") >>),
            Phase(3, "not_started", 0, <<>>, << Step(1, "not_started") >>) >>)

\* a phase with a status outside the enum and a phase without the status key
PlanC ==
    Plan(<< Phase(1, UnknownStatus, 0, <<>>, << Step(1, "not_started") >>),
            Phase(2, MissingStatus, 0, <<>>, << Step(1, MissingStatus) >>),
            Phase(3, "not_started", 0, <<>>, << Step(1, "not_started") >>) >>)

\* two phases in progress, numbered 1 and 3
PlanD ==
    Plan(<< Phase(1, "in_progress", 33, <<>>,
                  << Step(1, "not_started"), Step(2, "not_started"),
                     Step(3, "completed") >>),
            Phase(3, "in_progress", 50, << DepInt(1) >>,
                  << Step(1, "in_progress") >>) >>)

\* one phase left to complete; the completed phase carries an effort text that
\* float() rejects
PlanE ==
    Plan(<< [Phase(1, "completed", 100, <<>>, << Step(1, "completed") >>)
                EXCEPT !.actual_effort = Some(EffortText)],
            Phase(2, "in_progress", 0, << DepInt(1) >>,
                  << Step(1, "not_started"), Step(2, "in_progress") >>) >>)

InitialPlans == {PlanA, PlanB, PlanC, PlanD, PlanE}

EmptyStore == [d \in Days |-> None]

NoRun ==
    [args |-> NoArgs, exit |-> Running, err |-> "none", trace |-> <<>>,
     hook |-> "unused", pre |-> None, mem |-> EmptyData,
     path |-> "plan", day |-> 0, backups_pre |-> EmptyStore, archive_pre |-> None,
     backup_file |-> None]

\* the invocations that run step by step
Writers == {1, 2}

Idle == [pc |-> "idle"]

\* nothing below Completed/, no write in progress
Quiet ==
    /\ archive_side = [backups |-> EmptyStore, completed |-> None]
    /\ temp_file = None
    /\ platform = "posix"
    /\ procs = [w \in Writers |-> Idle]
    /\ seen = None

Init ==
    /\ plan_file \in {Some(p) : p \in InitialPlans}
    /\ backups = EmptyStore
    /\ completed_dir = None
    /\ Quiet
    /\ today = 0
    /\ clock = 0
    /\ last = NoRun

\* { Main(args, env, ...) : env \in envs } on the current files, for a set envs of
\* the form [hook : H, copy_fails : C, context_exists : X]: the hook is read by
\* Finish only, so the environments that differ in the hook share one MainBody
Outcomes(args, envs) ==
    UNION { { Finish(w, h) : h \in {e.hook : e \in envs} } :
            w \in { MainBody(args, e, plan_file, backups, completed_dir, today,
                             [day |-> today, tick |-> clock]) :
                    e \in {[f EXCEPT !.hook = "absent"] : f \in envs} } }

\* what is recorded of the run that ended as m
Record(args, m, path, pre) ==
    [args |-> args, exit |-> m.exit, err |-> m.err, trace |-> m.trace,
     hook |-> m.hook, pre |-> pre, mem |-> m.data,
     path |-> path, day |-> today, backups_pre |-> backups,
     archive_pre |-> completed_dir, backup_file |-> m.backup_file]

\* one run of main() on the plan path, with the given command line, in some
\* environment of the set
Run(args, envs) ==
    /\ \E m \in Outcomes(args, envs) :
           /\ plan_file' = m.plan_file
           /\ backups' = m.backups
           /\ completed_dir' = m.completed_dir
           /\ last' = Record(args, m, "plan", plan_file)
    /\ clock' = clock + 1
    /\ UNCHANGED <<archive_side, temp_file, platform, procs, seen, today>>

Invoke(args, envs) == clock < MaxClock /\ Run(args, envs)

\* plan-update.py <plan> --phase N --status S [--force]
SetPhaseStatus ==
    \E n \in PhaseArgs, s \in VALID_STATUSES, f \in BOOLEAN :
        Invoke([NoArgs EXCEPT !.phase = n, !.status = Some(s), !.force = f], Envs)

\* plan-update.py <plan> --phase N --completion P [--no-backup]
SetPhaseCompletion ==
    \E n \in PhaseArgs, c \in CompletionArgs, nb \in BOOLEAN :
        Invoke([NoArgs EXCEPT !.phase = n, !.completion = Some(c), !.no_backup = nb], Envs)

\* plan-update.py <plan> --phase N --actual-effort H
SetPhaseEffort ==
    \E n \in PhaseArgs, e \in EffortArgs :
        Invoke([NoArgs EXCEPT !.phase = n, !.actual_effort = Some(e)], AllEnvs)

\* plan-update.py <plan> --phase N --step M --status S [--force]
SetStepStatus ==
    \E n \in PhaseArgs, k \in StepArgs, s \in VALID_STATUSES, f \in BOOLEAN :
        Invoke([NoArgs EXCEPT !.phase = n, !.step = k, !.status = Some(s), !.force = f],
               Envs)

\* plan-update.py <plan> --phase N --status S --completion P --actual-effort H
\*                       --completion-notes T
MultiUpdate ==
    \E n \in PhaseArgs, s \in {"in_progress", "completed"}, c \in {50, 101},
       e \in EffortArgs :
        Invoke([NoArgs EXCEPT !.phase = n, !.status = Some(s), !.completion = Some(c),
                              !.actual_effort = Some(e),
                              !.completion_notes = Some("done")], Envs)

\* plan-update.py <plan> --add-history --context F --notes T [--no-backup]
AppendHistory ==
    \E x \in BOOLEAN, nb \in BOOLEAN :
        Invoke([NoArgs EXCEPT !.add_history = TRUE, !.context = Some("context.json"),
                              !.notes = Some("note"), !.no_backup = nb],
               [hook : HookVerdicts, copy_fails : {FALSE}, context_exists : {x}])

\* plan-update.py <plan> --start-next [--force] [--no-backup]
StartNext ==
    \E f \in BOOLEAN, nb \in BOOLEAN :
        Invoke([NoArgs EXCEPT !.start_next = TRUE, !.force = f, !.no_backup = nb],
               AllEnvs)

\* plan-update.py <plan> --complete-current [--completion-notes T] [--actual-effort H]
CompleteCurrent ==
    \E t \in NotesArgs, e \in {None} \cup {Some(x) : x \in EffortArgs} :
        Invoke([NoArgs EXCEPT !.complete_current = TRUE, !.completion_notes = t,
                              !.actual_effort = e], Envs)

\* plan-update.py <plan> --start-next --complete-current [--force]
StartAndComplete ==
    \E f \in BOOLEAN :
        Invoke([NoArgs EXCEPT !.start_next = TRUE, !.complete_current = TRUE,
                              !.force = f], Envs)

\* midnight passes
NextDay ==
    /\ today < MaxDay
    /\ today' = today + 1
    /\ UNCHANGED <<plan_file, backups, completed_dir, archive_side, temp_file, platform,
                   procs, seen, clock, last>>

Next ==
    \/ SetPhaseStatus
    \/ SetPhaseCompletion
    \/ SetPhaseEffort
    \/ SetStepStatus
    \/ MultiUpdate
    \/ AppendHistory
    \/ StartNext
    \/ CompleteCurrent
    \/ StartAndComplete
    \/ NextDay

Spec == Init /\ [][Next]_vars

\* ------------------------------------------------------------------------
\* Step derivation: one step status update on a phase with up to MaxSteps steps
\* ------------------------------------------------------------------------
\* a phase in progress with n steps of which the last c are completed
SteppedPlan(n, c) ==
    Plan(<< Phase(1, "in_progress", (100 * c) \div n, <<>>,
                  [i \in 1..n |-> Step(i, IF i > n - c THEN "completed" ELSE "not_started")]),
            Phase(2, "not_started", 0, << DepInt(1) >>, << Step(1, "not_started") >>) >>)

InitSteps ==
    /\ \E n \in 1..MaxSteps : \E c \in 0..n : plan_file = Some(SteppedPlan(n, c))
    /\ backups = EmptyStore
    /\ completed_dir = None
    /\ Quiet
    /\ today = 0
    /\ clock = MaxClock - 1
    /\ last = NoRun

SpecSteps == InitSteps /\ [][SetStepStatus]_vars

\* ------------------------------------------------------------------------
\* Archived plans: runs after the plan has been moved to Completed/
\* ------------------------------------------------------------------------
\* the run that completes the last phase of PlanE and archives the plan
ArchivingRun(effort) ==
    Main([NoArgs EXCEPT !.complete_current = TRUE, !.actual_effort = effort],
         [hook |-> "passes", copy_fails |-> FALSE, context_exists |-> TRUE],
         Some(PlanE), EmptyStore, None, 0, [day |-> 0, tick |-> 0])

InitArchived ==
    /\ \E e \in {None, Some(3)} :
           /\ plan_file = ArchivingRun(e).plan_file
           /\ backups = ArchivingRun(e).backups
           /\ completed_dir = ArchivingRun(e).completed_dir
    /\ Quiet
    /\ today = 0
    /\ clock = 0
    /\ last = NoRun

\* command lines tried on an archived plan
ArchivedArgs ==
    {[NoArgs EXCEPT !.phase = n, !.status = Some(st), !.force = f] :
        n \in 1..2, st \in VALID_STATUSES, f \in BOOLEAN}
    \cup {[NoArgs EXCEPT !.phase = n, !.completion = Some(c), !.force = f] :
        n \in 1..2, c \in {50, 100}, f \in BOOLEAN}
    \cup {[NoArgs EXCEPT !.phase = n, !.step = 1, !.status = Some(st), !.force = f] :
        n \in 1..2, st \in {"completed", "in_progress"}, f \in BOOLEAN}
    \cup {[NoArgs EXCEPT !.add_history = TRUE, !.context = Some("context.json"),
                         !.force = f] : f \in BOOLEAN}
    \cup {[NoArgs EXCEPT !.start_next = TRUE, !.force = f] : f \in BOOLEAN}
    \cup {[NoArgs EXCEPT !.complete_current = TRUE, !.force = f] : f \in BOOLEAN}

\* plan-update.py Docs/Plans/<plan> ... : the path the plan had before the archive
UpdateByOriginalPath == \E args \in ArchivedArgs : Invoke(args, Envs)

\* plan-update.py Docs/Plans/Completed/<plan> ... : self.plan_file is the archived
\* file, so BACKUP_DIR and COMPLETED_DIR are resolved below Completed/
UpdateByArchivePath ==
    /\ clock < MaxClock
    /\ \E args \in ArchivedArgs, env \in Envs :
        \E m \in {Main(args, env, completed_dir, archive_side.backups,
                        archive_side.completed, today,
                        [day |-> today, tick |-> clock])} :
           /\ completed_dir' = m.plan_file
           /\ archive_side' = [backups |-> m.backups, completed |-> m.completed_dir]
           /\ last' = [Record(args, m, "archive", completed_dir)
                          EXCEPT !.backups_pre = archive_side.backups]
    /\ clock' = clock + 1
    /\ UNCHANGED <<plan_file, backups, temp_file, platform, procs, seen, today>>

NextArchived == UpdateByOriginalPath \/ UpdateByArchivePath \/ NextDay

SpecArchived == InitArchived /\ [][NextArchived]_vars

\* ------------------------------------------------------------------------
\* Daily backups: several saves of one plan over several days
\* ------------------------------------------------------------------------
InitBackups ==
    /\ plan_file \in {Some(PlanA), Some(PlanB)}
    /\ backups = EmptyStore
    /\ completed_dir = None
    /\ Quiet
    /\ today = 0
    /\ clock = 0
    /\ last = NoRun

\* plan-update.py <plan> --phase 1 --completion P [--no-backup]
Save ==
    /\ clock < MaxSaves
    /\ \E c \in {0, 50}, nb \in BOOLEAN :
           Run([NoArgs EXCEPT !.phase = 1, !.completion = Some(c), !.no_backup = nb],
               [hook : {"passes"}, copy_fails : BOOLEAN, context_exists : {TRUE}])

NextBackups == Save \/ NextDay

SpecBackups == InitBackups /\ [][NextBackups]_vars

\* ------------------------------------------------------------------------
\* restore_backup() called on the PlanUpdater after write_plan()
\* ------------------------------------------------------------------------
\* main() up to write_plan, then restore_backup() and sys.exit(2) as on lines 906-907
RestoreAfterWrite(args, envs) ==
    /\ clock < MaxClock
    /\ \E env \in envs :
        \E w \in {MainBody(args, env, plan_file, backups, completed_dir, today,
                            [day |-> today, tick |-> clock])} :
        \E m \in {IF Exited(w) THEN w
                   ELSE Exit(RestoreBackup(Log([w EXCEPT !.hook = "blocking"], "validate")), 2)} :
           /\ plan_file' = m.plan_file
           /\ backups' = m.backups
           /\ completed_dir' = m.completed_dir
           /\ last' = Record(args, m, "plan", plan_file)
    /\ clock' = clock + 1
    /\ UNCHANGED <<archive_side, temp_file, platform, procs, seen, today>>

\* plan-update.py <plan> --phase N --completion P [--no-backup], validation blocks
RestoreCompletion ==
    \E n \in PhaseArgs, c \in CompletionArgs, nb \in BOOLEAN :
        RestoreAfterWrite([NoArgs EXCEPT !.phase = n, !.completion = Some(c),
                                          !.no_backup = nb],
                          [hook : {"blocking"}, copy_fails : BOOLEAN,
                           context_exists : {TRUE}])

\* plan-update.py <plan> --start-next [--no-backup], validation blocks
RestoreStartNext ==
    \E nb \in BOOLEAN :
        RestoreAfterWrite([NoArgs EXCEPT !.start_next = TRUE, !.no_backup = nb],
                          [hook : {"blocking"}, copy_fails : BOOLEAN,
                           context_exists : {TRUE}])

NextRestore == RestoreCompletion \/ RestoreStartNext \/ NextDay

SpecRestore == Init /\ [][NextRestore]_vars

\* ------------------------------------------------------------------------
\* Invocations step by step: load, write_plan through its temporary file,
\* validation; and an invocation that only reads the plan file
\* ------------------------------------------------------------------------
Proc(pc, m, args, pre, order) ==
    [pc |-> pc, m |-> m, args |-> args, pre |-> pre, order |-> order]

WriterEnv == [hook |-> "absent", copy_fails |-> FALSE, context_exists |-> TRUE]

\* the command line of writer w: an update of phase w
WriterArgs(w) ==
    {[NoArgs EXCEPT !.phase = w, !.completion = Some(c)] : c \in {50, 101}}
    \cup {[NoArgs EXCEPT !.phase = w, !.actual_effort = Some(3)]}

\* __init__, create_backup and the updates in memory
Begin(w) ==
    /\ procs[w].pc = "idle"
    /\ \E args \in WriterArgs(w) :
       \E m \in {MainUpdates(args, WriterEnv, plan_file, backups, completed_dir, today,
                              [day |-> today, tick |-> clock])} :
          /\ plan_file' = m.plan_file
          /\ backups' = m.backups
          /\ completed_dir' = m.completed_dir
          /\ procs' = [procs EXCEPT ![w] =
                          Proc(IF Exited(m) THEN "done" ELSE "loaded", m, args, plan_file, 0)]
    /\ clock' = clock + 1
    /\ UNCHANGED <<archive_side, temp_file, platform, seen, today, last>>

\* update_metadata and update_phase_index of write_plan: self.data as json.dump
\* will serialize it
Serialize(m) ==
    LET wm == WritePlan(m, [day |-> today, tick |-> clock])
    IN  IF Exited(wm) THEN wm ELSE [m EXCEPT !.data = wm.data]

\* write_plan up to tempfile.mkstemp: the temporary file exists and is empty
OpenTemp(w) ==
    /\ procs[w].pc = "loaded"
    /\ temp_file = None
    /\ \E sm \in {Serialize(procs[w].m)} :
          IF Exited(sm)
          THEN /\ procs' = [procs EXCEPT ![w].pc = "done", ![w].m = sm]
               /\ UNCHANGED temp_file
          ELSE /\ procs' = [procs EXCEPT ![w].pc = "dumping", ![w].m = sm]
               /\ temp_file' = Partial(sm.data, 0)
    /\ UNCHANGED <<plan_file, backups, completed_dir, archive_side, platform, seen,
                   today, clock, last>>

\* json.dump writes the next chunk into the temporary file
Dump(w) ==
    /\ procs[w].pc = "dumping"
    /\ LET k == temp_file[2] + 1 IN
       IF k = MaxChunks
       THEN /\ temp_file' = Some(temp_file[1])
            /\ procs' = [procs EXCEPT ![w].pc = "dumped"]
       ELSE /\ temp_file' = Partial(temp_file[1], k)
            /\ UNCHANGED procs
    /\ UNCHANGED <<plan_file, backups, completed_dir, archive_side, platform, seen,
                   today, clock, last>>

\* json.dump raises: the except branch unlinks the temporary file and calls error()
DumpFails(w) ==
    /\ procs[w].pc = "dumping"
    /\ temp_file' = None
    /\ procs' = [procs EXCEPT ![w].pc = "done",
                              ![w].m = Error(procs[w].m, "WriteFailed", 2)]
    /\ UNCHANGED <<plan_file, backups, completed_dir, archive_side, platform, seen,
                   today, clock, last>>

\* shutil.move(temp_path, self.plan_file): os.rename replaces the plan file on
\* posix; on nt os.rename raises because the plan file exists, and shutil.move
\* falls back to copy2, which opens the plan file for writing
Move(w) ==
    /\ procs[w].pc = "dumped"
    /\ IF platform = "posix"
       THEN /\ plan_file' = temp_file
            /\ temp_file' = None
            /\ procs' = [procs EXCEPT ![w].pc = "written",
                                      ![w].m = Log(procs[w].m, "write")]
       ELSE /\ plan_file' = Partial(temp_file[1], 0)
            /\ UNCHANGED temp_file
            /\ procs' = [procs EXCEPT ![w].pc = "copying"]
    /\ UNCHANGED <<backups, completed_dir, archive_side, platform, seen, today, clock,
                   last>>

\* copy2 writes the next chunk into the plan file; after the last one shutil.move
\* unlinks the temporary file
Copy(w) ==
    /\ procs[w].pc = "copying"
    /\ LET k == plan_file[2] + 1 IN
       IF k = MaxChunks
       THEN /\ plan_file' = Some(plan_file[1])
            /\ temp_file' = None
            /\ procs' = [procs EXCEPT ![w].pc = "written",
                                      ![w].m = Log(procs[w].m, "write")]
       ELSE /\ plan_file' = Partial(plan_file[1], k)
            /\ UNCHANGED <<temp_file, procs>>
    /\ UNCHANGED <<backups, completed_dir, archive_side, platform, seen, today, clock,
                   last>>

\* copy2 raises: the except branch unlinks the temporary file and calls error()
CopyFails(w) ==
    /\ procs[w].pc = "copying"
    /\ temp_file' = None
    /\ procs' = [procs EXCEPT ![w].pc = "done",
                              ![w].m = Error(procs[w].m, "WriteFailed", 2)]
    /\ UNCHANGED <<plan_file, backups, completed_dir, archive_side, platform, seen,
                   today, clock, last>>

\* run_validation and the end of main()
Validate(w) ==
    /\ procs[w].pc = "written"
    /\ \E hook \in HookVerdicts :
       \E f \in {Finish([procs[w].m EXCEPT !.plan_file = plan_file, !.backups = backups],
                         hook)} :
          /\ plan_file' = f.plan_file
          /\ procs' = [procs EXCEPT ![w].pc = "done", ![w].m = f]
    /\ UNCHANGED <<backups, completed_dir, archive_side, temp_file, platform, seen,
                   today, clock, last>>

\* another invocation opens and reads the plan file (__init__ of --summary)
ReadPlan ==
    /\ seen # plan_file
    /\ seen' = plan_file
    /\ UNCHANGED <<plan_file, backups, completed_dir, archive_side, temp_file, platform,
                   procs, today, clock, last>>

InitWrite ==
    /\ plan_file \in {Some(PlanA), Some(PlanB), Some(PlanD)}
    /\ backups = EmptyStore
    /\ completed_dir = None
    /\ archive_side = [backups |-> EmptyStore, completed |-> None]
    /\ temp_file = None
    /\ platform \in {"posix", "nt"}
    /\ procs = [w \in Writers |-> Idle]
    /\ seen = None
    /\ today = 0
    /\ clock = 0
    /\ last = NoRun

NextWrite ==
    \/ Begin(1)
    \/ OpenTemp(1)
    \/ Dump(1)
    \/ DumpFails(1)
    \/ Move(1)
    \/ Copy(1)
    \/ CopyFails(1)
    \/ Validate(1)
    \/ ReadPlan

SpecWrite == InitWrite /\ [][NextWrite]_vars

\* ------------------------------------------------------------------------
\* Two invocations on the same plan path, each write_plan taken as one step
\* ------------------------------------------------------------------------
WrittenDocument_Merged(w) ==
    MainUpdates(procs[w].args, WriterEnv, plan_file, backups, completed_dir, today,
                [day |-> today, tick |-> clock]).data

\* json.dump(self.data, f): the document loaded by __init__, with this run's updates
WrittenDocument(w) == procs[w].m.data

\* write_plan as a whole
Write(w) ==
    /\ procs[w].pc = "loaded"
    /\ \E sm \in {Serialize([procs[w].m EXCEPT !.data = WrittenDocument(w)])} :
          IF Exited(sm)
          THEN /\ procs' = [procs EXCEPT ![w].pc = "done", ![w].m = sm]
               /\ UNCHANGED plan_file
          ELSE /\ procs' = [procs EXCEPT
                               ![w].pc = "written",
                               ![w].m = Log(sm, "write"),
                               ![w].order = 1 + Cardinality({v \in Writers :
                                                   procs[v].pc # "idle" /\ procs[v].order > 0})]
               /\ plan_file' = Some(sm.data)
    /\ UNCHANGED <<backups, completed_dir, archive_side, temp_file, platform, seen,
                   today, clock, last>>

InitWriters ==
    /\ plan_file \in {Some(PlanA), Some(PlanB)}
    /\ backups = EmptyStore
    /\ completed_dir = None
    /\ Quiet
    /\ today = 0
    /\ clock = 0
    /\ last = NoRun

NextWriters == \E w \in Writers : Begin(w) \/ Write(w) \/ Validate(w)

SpecWriters == InitWriters /\ [][NextWriters]_vars

\* ------------------------------------------------------------------------
\* Execution history: several runs that append entries and update phases
\* ------------------------------------------------------------------------
\* plan-update.py <plan> --phase N --status S --add-history --context F --notes T
AppendAfterUpdate ==
    /\ clock < MaxSaves
    /\ \E n \in 1..2, st \in {"in_progress", "completed"}, x \in BOOLEAN :
          Run([NoArgs EXCEPT !.phase = n, !.status = Some(st), !.add_history = TRUE,
                             !.context = Some("context.json"), !.notes = Some("note")],
              [hook : {"passes", "warnings"}, copy_fails : {FALSE}, context_exists : {x}])

\* plan-update.py <plan> --add-history --context F
AppendOnly ==
    /\ clock < MaxSaves
    /\ Run([NoArgs EXCEPT !.add_history = TRUE, !.context = Some("context.json")],
           [hook : {"passes"}, copy_fails : {FALSE}, context_exists : {TRUE}])

\* plan-update.py <plan> --start-next, and --complete-current
WorkflowStep ==
    /\ clock < MaxSaves
    /\ \E sn \in BOOLEAN :
          Run([NoArgs EXCEPT !.start_next = sn, !.complete_current = ~sn],
              [hook : {"passes"}, copy_fails : {FALSE}, context_exists : {TRUE}])

NextHistory == AppendAfterUpdate \/ AppendOnly \/ WorkflowStep \/ NextDay

SpecHistory == InitBackups /\ [][NextHistory]_vars

\* ------------------------------------------------------------------------
\* A plan with a dependency cycle
\* ------------------------------------------------------------------------
\* phase 1 depends on 2, 2 on 3, 3 on 1
PlanCyclic ==
    Plan(<< Phase(1, "in_progress", 50, << DepInt(2) >>,
                  << Step(1, "completed"), Step(2, "not_started") >>),
            Phase(2, "not_started", 0, << DepInt(3) >>, << Step(1, "not_started") >>),
            Phase(3, "not_started", 0, << DepPhaseStr(1) >>, << Step(1, "not_started") >>) >>)

InitCyclic ==
    /\ plan_file = Some(PlanCyclic)
    /\ backups = EmptyStore
    /\ completed_dir = None
    /\ Quiet
    /\ today = 0
    /\ clock = 0
    /\ last = NoRun

\* the hook, when it runs, finds the cycle and exits with 2
CyclicEnvs ==
    [hook : {"blocking", "absent", "unstartable"}, copy_fails : {FALSE},
     context_exists : {TRUE}]

CyclicPhaseStatus ==
    \E n \in PhaseArgs, st \in VALID_STATUSES, f \in BOOLEAN :
        Invoke([NoArgs EXCEPT !.phase = n, !.status = Some(st), !.force = f], CyclicEnvs)

CyclicPhaseCompletion ==
    \E n \in PhaseArgs, c \in CompletionArgs, f \in BOOLEAN :
        Invoke([NoArgs EXCEPT !.phase = n, !.completion = Some(c), !.force = f],
               CyclicEnvs)

CyclicWorkflow ==
    \E sn \in BOOLEAN, f \in BOOLEAN :
        Invoke([NoArgs EXCEPT !.start_next = sn, !.complete_current = ~sn, !.force = f],
               CyclicEnvs)

NextCyclic == CyclicPhaseStatus \/ CyclicPhaseCompletion \/ CyclicWorkflow \/ NextDay

SpecCyclic == InitCyclic /\ [][NextCyclic]_vars

\* ------------------------------------------------------------------------
\* Workflow commands only: any sequence of --start-next and --complete-current
\* ------------------------------------------------------------------------
InitFlow ==
    /\ plan_file \in {Some(PlanA), Some(PlanB), Some(PlanC), Some(PlanE)}
    /\ backups = EmptyStore
    /\ completed_dir = None
    /\ Quiet
    /\ today = 0
    /\ clock = 0
    /\ last = NoRun

FlowEnvs == [hook : {"passes", "warnings"}, copy_fails : {FALSE}, context_exists : {TRUE}]

\* plan-update.py <plan> --start-next [--force]
FlowStartNext ==
    /\ clock < MaxSaves
    /\ \E f \in BOOLEAN :
          Run([NoArgs EXCEPT !.start_next = TRUE, !.force = f], FlowEnvs)

\* plan-update.py <plan> --complete-current [--force]
FlowCompleteCurrent ==
    /\ clock < MaxSaves
    /\ \E f \in BOOLEAN :
          Run([NoArgs EXCEPT !.complete_current = TRUE, !.force = f], FlowEnvs)

\* plan-update.py <plan> --start-next --complete-current [--force]
FlowStartAndComplete ==
    /\ clock < MaxSaves
    /\ \E f \in BOOLEAN :
          Run([NoArgs EXCEPT !.start_next = TRUE, !.complete_current = TRUE, !.force = f],
              FlowEnvs)

NextFlow == FlowStartNext \/ FlowCompleteCurrent \/ FlowStartAndComplete

SpecFlow == InitFlow /\ [][NextFlow]_vars

\* ------------------------------------------------------------------------
\* Workflow progress: --start-next and --complete-current issued in turn,
\* validation passing
\* ------------------------------------------------------------------------
\* acyclic dependency lists of three phases, every reference resolving
ProgressDeps ==
    { << <<>>, << DepInt(1) >>, << DepInt(2) >> >>,
      << << DepInt(2) >>, <<>>, << DepPhaseStr(1) >> >>,
      << << DepInt(3) >>, << DepNumStr(3) >>, <<>> >>,
      << <<>>, <<>>, << DepInt(1), DepInt(2) >> >>,
      << <<>>, <<>>, <<>> >> }

\* statuses of three phases: not_started, in_progress (at most one) or completed
ProgressStatuses ==
    {st \in [1..3 -> {"not_started", "in_progress", "completed"}] :
        Cardinality({i \in 1..3 : st[i] = "in_progress"}) <= 1}

ProgressPlan(st, deps) ==
    Plan([i \in 1..3 |->
            Phase(i, st[i], IF st[i] = "completed" THEN 100 ELSE 0, deps[i],
                  << Step(1, st[i]) >>)])

InitProgress ==
    /\ \E st \in ProgressStatuses, deps \in ProgressDeps :
          plan_file = Some(ProgressPlan(st, deps))
    /\ backups = EmptyStore
    /\ completed_dir = None
    /\ Quiet
    /\ today = 0
    /\ clock = 0
    /\ last = NoRun

ProgressEnvs == [hook : {"passes"}, copy_fails : {FALSE}, context_exists : {TRUE}]

\* plan-update.py <plan> --start-next, first and after every --complete-current
IssueStartNext ==
    /\ clock < MaxRuns
    /\ ~last.args.start_next
    /\ Run([NoArgs EXCEPT !.start_next = TRUE], ProgressEnvs)

\* plan-update.py <plan> --complete-current, after every --start-next
IssueCompleteCurrent ==
    /\ clock < MaxRuns
    /\ last.args.start_next
    /\ Run([NoArgs EXCEPT !.complete_current = TRUE], ProgressEnvs)

NextProgress == IssueStartNext \/ IssueCompleteCurrent

\* the caller keeps issuing the commands
SpecProgress == InitProgress /\ [][NextProgress]_vars /\ WF_vars(NextProgress)

\* ------------------------------------------------------------------------
\* Properties
\* ------------------------------------------------------------------------
Ran == last.exit # Running
Loaded == Ran /\ last.pre # None /\ last.err # "Usage"
Pre == last.pre[1]
Logged(event) == \E k \in 1..Len(last.trace) : last.trace[k] = event

\* the operation the last run was asked to perform
OnlyPhaseStatus ==
    /\ last.args.phase # 0 /\ last.args.step = 0 /\ last.args.status # None
    /\ last.args.completion = None /\ last.args.actual_effort = None
    /\ ~last.args.start_next /\ ~last.args.complete_current /\ ~last.args.add_history
OnlyStepStatus ==
    /\ last.args.phase # 0 /\ last.args.step # 0 /\ last.args.status # None
    /\ ~last.args.start_next /\ ~last.args.complete_current /\ ~last.args.add_history
OnlyStartNext ==
    /\ last.args.start_next /\ ~last.args.complete_current
    /\ last.args.phase = 0 /\ ~last.args.add_history
OnlyCompleteCurrent ==
    /\ last.args.complete_current /\ ~last.args.start_next
    /\ last.args.phase = 0 /\ ~last.args.add_history

\* the position of the phase the last run addressed, when the engine resolved it
AddressedPhase == PhaseIndex(Pre.phases, last.args.phase)
PhaseResolved == last.args.phase \in 1..Len(Pre.phases) /\ AddressedPhase # 0
AddressedStep == StepIndex(Pre.phases[AddressedPhase].steps, last.args.step)
StepResolved ==
    /\ PhaseResolved
    /\ last.args.step \in 1..Len(Pre.phases[AddressedPhase].steps)
    /\ AddressedStep # 0

InProgress(phases) == {i \in 1..Len(phases) : phases[i].status = "in_progress"}

\* C1: whenever the validation hook returned the blocking code 2, the plan file
\* after the run is the plan file from before the run.
C1_RollbackAtomic ==
    (Ran /\ last.hook = "blocking") => plan_file = last.pre

\* C2: whenever the validation hook returned the blocking code 2, restore_backup
\* has been executed and the run ends with exit status 2.
C2_RestoreThenExit2 ==
    (Ran /\ last.hook = "blocking")
        => /\ last.exit = 2
           /\ (Logged("restore") \/ Logged("restore_skipped"))

RejectedInput ==
    {"IllegalTransition", "NotFound", "InvalidCompletion", "InvalidEffort",
     "ContextNotFound", "InvalidStatus"}

\* C3: a run in which some requested update is rejected before the write leaves
\* the plan file as it was and ends with exit status 2, also when earlier updates
\* of the same run had already been applied in memory.
C3_RejectedWritesNothing ==
    (Ran /\ last.err \in RejectedInput)
        => /\ plan_file = last.pre
           /\ completed_dir = None
           /\ last.exit = 2
           /\ ~Logged("write")

\* a multi-update whose status change was applied in memory before its
\* completion value was rejected
C3_Witness ==
    /\ Ran /\ last.err = "InvalidCompletion"
    /\ last.args.status = Some("completed")
    /\ PhaseResolved
    /\ Pre.phases[AddressedPhase].status = "in_progress"
    /\ last.mem.phases[AddressedPhase].status = "completed"
    /\ plan_file = last.pre
    /\ last.exit = 2

C4_Table(current) ==
    IF current = "not_started" THEN {"in_progress", "blocked", "completed"}
    ELSE IF current = "in_progress" THEN {"completed", "blocked"}
    ELSE IF current = "blocked" THEN {"in_progress", "completed"}
    ELSE {}

C4_Legal(current, requested) ==
    requested = current \/ last.args.force \/ requested \in C4_Table(current)

\* the run applied the transition of an item from current to status[1] / rejected it
C4_Outcome(current, after) ==
    IF C4_Legal(current, last.args.status[1])
    THEN last.err # "IllegalTransition" /\ after = last.args.status[1]
    ELSE /\ last.err = "IllegalTransition" /\ last.exit = 2
         /\ after = current /\ plan_file = last.pre

\* C4: a phase or step status update from one of the four statuses succeeds iff the
\* requested status equals the current one, force is set, or the requested status
\* is in the transition table; otherwise it fails with an illegal-transition error
\* and the status stays.
C4_TransitionLegality ==
    /\ (Loaded /\ OnlyPhaseStatus /\ PhaseResolved
            /\ Pre.phases[AddressedPhase].status \in VALID_STATUSES)
        => C4_Outcome(Pre.phases[AddressedPhase].status,
                      last.mem.phases[AddressedPhase].status)
    /\ (Loaded /\ OnlyStepStatus /\ StepResolved
            /\ Pre.phases[AddressedPhase].steps[AddressedStep].status \in VALID_STATUSES)
        => C4_Outcome(Pre.phases[AddressedPhase].steps[AddressedStep].status,
                      last.mem.phases[AddressedPhase].steps[AddressedStep].status)

\* not_started -> completed accepted without force
C4_Witness ==
    /\ Loaded /\ OnlyPhaseStatus /\ PhaseResolved /\ ~last.args.force
    /\ Pre.phases[AddressedPhase].status = "not_started"
    /\ last.args.status = Some("completed")
    /\ last.mem.phases[AddressedPhase].status = "completed"
    /\ plan_file # None /\ plan_file[1].phases[AddressedPhase].status = "completed"

\* C5: in the persisted document every completed phase has completion 100 and
\* every not_started phase has completion 0.
C5_StatusCompletionInvariant ==
    plan_file # None =>
        \A i \in 1..Len(plan_file[1].phases) :
            LET p == plan_file[1].phases[i] IN
            /\ p.status = "completed" => p.completion_percentage = 100
            /\ p.status = "not_started" => p.completion_percentage = 0

\* every dependency reference that resolves to a phase names a completed phase
C6_DependenciesCompleted(phases, p) ==
    \A k \in 1..Len(p.dependencies) :
        LET d == ParseDependency(p.dependencies[k]) IN
        \A j \in 1..Len(phases) :
            (d.kind = "num" /\ phases[j].number = d.n) => phases[j].status = "completed"

C6_Eligible(phases) ==
    {i \in 1..Len(phases) :
        /\ GetStatusDefault(phases[i]) = "not_started"
        /\ C6_DependenciesCompleted(phases, phases[i])}

\* C6: the next_available of a written phase index is the number of the first
\* phase, in declaration order, that is not_started (a phase without a status
\* counting as not_started) and has all its resolving dependencies completed,
\* and is empty when there is no such phase.
C6_NextAvailable ==
    (plan_file # None /\ plan_file[1].phase_index # None) =>
        LET phases   == plan_file[1].phases
            eligible == C6_Eligible(phases)
            next     == plan_file[1].phase_index[1].next_available
        IN  IF eligible = {} THEN next = None
            ELSE next = Some(phases[CHOOSE i \in eligible : \A j \in eligible : i <= j].number)

\* C7: with no phase in progress, startNext moves to in_progress exactly the phase
\* that the phase index reports as next_available for the same phases, and changes
\* no phase when next_available is empty.
C7_StartNextMatchesIndex ==
    (Loaded /\ OnlyStartNext /\ InProgress(Pre.phases) = {} /\ last.err # "Unexpected") =>
        LET next == PhaseIndexOf(Pre.phases).index.next_available IN
        IF next = None THEN last.mem.phases = Pre.phases
        ELSE LET i == PhaseIndex(Pre.phases, next[1]) IN
             last.mem.phases = [Pre.phases EXCEPT ![i].status = "in_progress"]

\* C8: startNext fails and changes no phase when a phase is in progress and force
\* is not set; with force an in-progress phase does not make it fail and the next
\* available phase is started.
C8_StartNextGuard ==
    (Loaded /\ OnlyStartNext /\ InProgress(Pre.phases) # {}) =>
        IF ~last.args.force
        THEN last.exit # 0 /\ last.mem.phases = Pre.phases /\ plan_file = last.pre
        ELSE LET i == StartLoop(Pre.phases, 1) IN
             i > 0 => last.mem.phases = [Pre.phases EXCEPT ![i].status = "in_progress"]

\* C9: completeCurrent completes the first in_progress phase in declaration order
\* (status completed, completion 100, the notes and the effort given), leaves all
\* other phases as they were, and with no phase in progress fails and changes
\* nothing in memory or on disk.
C9_CompleteCurrent ==
    (Loaded /\ OnlyCompleteCurrent) =>
        LET cur == InProgress(Pre.phases) IN
        IF cur = {}
        THEN last.exit = 1 /\ last.mem = Pre /\ plan_file = last.pre /\ completed_dir = None
        ELSE LET i == CHOOSE c \in cur : \A d \in cur : c <= d
                 p == Pre.phases[i]
             IN  last.mem.phases =
                    [Pre.phases EXCEPT ![i] =
                        [number |-> p.number, status |-> "completed",
                         completion_percentage |-> 100,
                         actual_effort |-> IF last.args.actual_effort = None
                                           THEN p.actual_effort
                                           ELSE Some(EffortStr(last.args.actual_effort[1])),
                         completion_notes |-> IF last.args.completion_notes = None
                                              THEN p.completion_notes
                                              ELSE last.args.completion_notes,
                         steps |-> p.steps, dependencies |-> p.dependencies]]

\* two phases in progress: the first one was completed with notes and effort
C9_Witness ==
    /\ Loaded /\ OnlyCompleteCurrent
    /\ Cardinality(InProgress(Pre.phases)) = 2
    /\ last.args.completion_notes # None /\ last.args.actual_effort # None
    /\ last.mem.phases[1].status = "completed"
    /\ last.mem.phases[2].status = "in_progress"
    /\ plan_file # None /\ plan_file[1].phases[1].status = "completed"

\* C10: after a successful step status update on a phase with n steps of which k
\* are completed, the phase's completion is the truncated quotient (100 * k) div n.
C10_CompletionDerivation ==
    (Loaded /\ OnlyStepStatus /\ StepResolved /\ last.err \notin RejectedInput) =>
        LET steps == last.mem.phases[AddressedPhase].steps
            k     == Cardinality({j \in 1..Len(steps) : steps[j].status = "completed"})
        IN  last.mem.phases[AddressedPhase].completion_percentage = (100 * k) \div Len(steps)

\* the document the last run left on disk, at the plan path or in Completed/
Persisted == IF plan_file # None THEN plan_file ELSE completed_dir

AllCompleted(phases) ==
    phases # <<>> /\ \A i \in 1..Len(phases) : phases[i].status = "completed"

\* every phase with steps carries the completion derived from its steps
C11_Derived(doc) ==
    \A i \in 1..Len(doc.phases) :
        LET steps == doc.phases[i].steps
            k     == Cardinality({j \in 1..Len(steps) : steps[j].status = "completed"})
        IN  Len(steps) > 0 =>
                doc.phases[i].completion_percentage = (100 * k) \div Len(steps)

\* C11: when every phase with steps carried its step-derived completion before a
\* run, every phase with steps carries its step-derived completion in the document
\* the run persisted: a completion set directly on such a phase does not survive.
C11_StepDerivedCompletion ==
    (Loaded /\ Logged("write") /\ C11_Derived(Pre)) => C11_Derived(Persisted[1])

\* C12: a run that persists a document in which every phase is completed leaves
\* no document at the plan path and leaves it in Completed/ with completed_at and
\* with total_actual_effort equal to the sum of the parseable efforts, also when
\* that sum is zero.
C12_ArchiveTrigger ==
    (Loaded /\ last.err = "none" /\ AllCompleted(last.mem.phases)) =>
        /\ plan_file = None
        /\ completed_dir # None
        /\ completed_dir[1].phases = last.mem.phases
        /\ completed_dir[1].metadata.completed_at # None
        /\ completed_dir[1].metadata.total_actual_effort
               = Some(EffortStr(TotalEffort(last.mem.phases, 1)))

\* C14: a run that wrote the document and ended with exit status 0 has run the
\* validation hook after the write, and the hook returned no blocking error.
C14_ValidateLast ==
    (Ran /\ Logged("write") /\ last.exit = 0) =>
        /\ \E i, j \in 1..Len(last.trace) :
               i < j /\ last.trace[i] = "write" /\ last.trace[j] = "validate"
        /\ last.hook # "blocking"

\* C17: when the validation hook is absent or cannot be started, the run ends with
\* exit status 0, the mutated document stays in the plan file and nothing is
\* restored.
C17_FailsOpen ==
    (Ran /\ last.hook \in {"absent", "unstartable"}) =>
        /\ last.exit = 0
        /\ plan_file = Some(last.mem)
        /\ ~Logged("restore") /\ ~Logged("restore_skipped")

\* a phase was started and written while the hook could not be started
C17_Witness ==
    /\ Ran /\ last.hook = "unstartable" /\ OnlyStartNext
    /\ Logged("write") /\ Logged("validate")
    /\ plan_file # last.pre
    /\ InProgress(plan_file[1].phases) # {} /\ InProgress(Pre.phases) = {}
    /\ last.exit = 0

\* the last run left its in-memory document on disk
C18_Applied == Persisted = Some(last.mem) /\ Logged("write")

\* C18: exit status 0 only when the mutation was persisted and validation gave no
\* warning, exit status 1 only when the mutation was persisted, and exit status 2
\* whenever nothing was applied.
C18_ExitStatus ==
    Ran =>
        /\ last.exit = 0 => (C18_Applied /\ last.hook \notin {"warnings", "blocking"})
        /\ last.exit = 1 => C18_Applied
        /\ (plan_file = last.pre /\ ~Logged("write")) => last.exit = 2

\* C13: every run on a plan that has been archived, addressed by its original
\* path or by its path in Completed/, with or without force, fails and leaves
\* the archived document as it was.
C13_ArchivedImmutable ==
    (Ran /\ last.archive_pre # None) =>
        /\ last.exit # 0
        /\ completed_dir = last.archive_pre

\* C15: a run never changes a backup file that exists: it creates the backup of
\* its day from the plan file as it was before the run only when that day has no
\* backup yet, reuses the existing one otherwise, and leaves the files of all
\* other days alone; so the saves of one day leave one backup and the first save
\* of the next day adds a second file.
C15_DailyBackup ==
    Ran =>
        /\ \A d \in Days : last.backups_pre[d] # None => backups[d] = last.backups_pre[d]
        /\ \A d \in Days : d # last.day => backups[d] = last.backups_pre[d]
        /\ Logged("backup_created")
               => (last.backups_pre[last.day] = None /\ backups[last.day] = last.pre)
        /\ Logged("backup_reused") => last.backups_pre[last.day] # None
        /\ (Loaded /\ ~last.args.no_backup /\ ~Logged("backup_failed"))
               => backups[last.day] # None

\* two saves on the first day and a third save on the next day: the first day's
\* backup is the original document, the second day's backup is the document the
\* second save of the first day wrote
C15_Witness ==
    /\ Ran /\ clock = 3 /\ last.day = 1 /\ Logged("backup_created")
    /\ backups[0] # None /\ backups[0][1].metadata.last_updated = None
    /\ backups[1] # None
    /\ backups[1][1].metadata.last_updated = Some([day |-> 0, tick |-> 1])
    /\ backups[0] # backups[1]

\* C16: when restore_backup is called, it copies the run's daily backup over the
\* plan file when that backup exists, and otherwise (no backup file, a failed
\* backup copy, or --no-backup) ends with a BackupUnavailable error instead of
\* returning silently.
C16_RestoreContract ==
    (Ran /\ (Logged("restore") \/ Logged("restore_skipped"))) =>
        IF last.backup_file # None /\ backups[last.backup_file[1]] # None
        THEN Logged("restore") /\ plan_file = backups[last.backup_file[1]]
        ELSE last.err = "BackupUnavailable"

\* C19: while write_plan writes the document, the plan file holds either the
\* complete document from before the run or the complete new document, an
\* invocation reading it never gets a partially written document, and after a
\* failed write the plan file still holds the complete previous document.
C19_NoPartialWrites ==
    /\ seen # None => ~IsPartial(seen)
    /\ procs[1].pc # "idle" =>
          /\ plan_file \in {procs[1].pre, Some(procs[1].m.data)}
          /\ procs[1].m.err = "WriteFailed" => plan_file = procs[1].pre

\* the invocation ended with exit status 0 after it wrote the plan file
C20_Succeeded(w) ==
    procs[w].pc = "done" /\ procs[w].m.exit = 0 /\ procs[w].order > 0

\* C20: when two invocations loaded the same document and both wrote and ended
\* with exit status 0, the plan file holds the in-memory document of the one that
\* wrote last, and every phase that one did not change is as it was loaded: the
\* other invocation's change is not in the file.
C20_LastWriterWins ==
    \A f, l \in Writers :
        (/\ C20_Succeeded(f) /\ C20_Succeeded(l)
         /\ procs[f].pre = procs[l].pre
         /\ procs[f].order < procs[l].order)
        => /\ plan_file = Some(procs[l].m.data)
           /\ \A i \in 1..Len(plan_file[1].phases) :
                 i # procs[l].args.phase
                    => plan_file[1].phases[i] = procs[l].pre[1].phases[i]

\* both invocations ended with exit status 0, the first writer had changed its
\* phase, and the plan file holds that phase as it was before either run
C20_Witness ==
    \E f, l \in Writers :
        /\ C20_Succeeded(f) /\ C20_Succeeded(l)
        /\ procs[f].pre = procs[l].pre
        /\ procs[f].order < procs[l].order
        /\ procs[f].m.data.phases[f] # procs[f].pre[1].phases[f]
        /\ plan_file[1].phases[f] = procs[f].pre[1].phases[f]
        /\ plan_file[1].phases[l] # procs[l].pre[1].phases[l]

UniqueNumbers(phases) ==
    \A i, j \in 1..Len(phases) : phases[i].number = phases[j].number => i = j

\* C21: on a plan with unique phase numbers, an update addressed to phase number n
\* fails with a not-found error when no phase has number n, and does not fail with
\* a not-found error when a phase numbered n exists (and, for a step update, the
\* step exists in it).
C21_PhaseResolution ==
    (Loaded /\ last.args.phase # 0 /\ ~last.args.start_next
            /\ ~last.args.complete_current /\ UniqueNumbers(Pre.phases)) =>
        LET found == {i \in 1..Len(Pre.phases) : Pre.phases[i].number = last.args.phase}
        IN  IF found = {} THEN last.err = "NotFound"
            ELSE LET steps == Pre.phases[CHOOSE i \in found : TRUE].steps IN
                 (last.args.step = 0
                    \/ \E k \in 1..Len(steps) : steps[k].number = last.args.step)
                 => last.err # "NotFound"

\* the list of an entry key that add_execution_history leaves out when empty
C22_ListOf(opt) == IF opt = None THEN <<>> ELSE opt[1]

\* the numbers of the phases of a document that have the status, in order
C22_Numbers(phases, status) ==
    LET sel == SelectSeq(phases, LAMBDA p : p.status = status)
    IN  [k \in 1..Len(sel) |-> sel[k].number]

\* C22: every write leaves the execution history it found as a prefix of the one
\* it persists; a run with appendHistory adds exactly one entry at the end, whose
\* completed and in-progress lists are the phase numbers with those statuses in
\* the persisted document (after the phase updates of the same run); any other
\* run persists the history unchanged.
C22_HistoryAppendOnly ==
    (Loaded /\ Logged("write")) =>
        LET before == Pre.execution_history
            doc    == Persisted[1]
            after  == doc.execution_history
        IN  IF last.args.add_history
            THEN /\ Len(after) = Len(before) + 1
                 /\ SubSeq(after, 1, Len(before)) = before
                 /\ C22_ListOf(after[Len(after)].phases_completed)
                        = C22_Numbers(doc.phases, "completed")
                 /\ C22_ListOf(after[Len(after)].phases_in_progress)
                        = C22_Numbers(doc.phases, "in_progress")
            ELSE after = before

\* a second entry appended by a run that also moved a phase to in_progress: the
\* new entry lists that phase, the older entry does not
C22_Witness ==
    /\ Loaded /\ Logged("write") /\ last.args.add_history
    /\ last.args.status = Some("in_progress") /\ PhaseResolved
    /\ Pre.phases[AddressedPhase].status # "in_progress"
    /\ Len(Pre.execution_history) >= 1
    /\ plan_file # None
    /\ LET h == plan_file[1].execution_history IN
          /\ Len(h) = Len(Pre.execution_history) + 1
          /\ \E k \in 1..Len(C22_ListOf(h[Len(h)].phases_in_progress)) :
                C22_ListOf(h[Len(h)].phases_in_progress)[k] = last.args.phase
          /\ \A k \in 1..Len(C22_ListOf(h[1].phases_in_progress)) :
                C22_ListOf(h[1].phases_in_progress)[k] # last.args.phase

\* C23: every actual_effort that a run changed on a phase of the persisted
\* document is a positive number; a request to record a zero or negative effort
\* records nothing.
C23_PositiveEffort ==
    (Loaded /\ Persisted # None) =>
        \A i \in 1..Len(Persisted[1].phases) :
            LET e == Persisted[1].phases[i].actual_effort IN
            e # Pre.phases[i].actual_effort
                => (e # None /\ e[1].text = "number" /\ e[1].value > 0)

\* phase j is reachable from phase i along dependency references
C24_Depends(phases) ==
    LET n == Len(phases)
        edge(i, j) == \E k \in 1..Len(phases[i].dependencies) :
                         LET d == ParseDependency(phases[i].dependencies[k]) IN
                         d.kind = "num" /\ phases[j].number = d.n
        RECURSIVE reach(_, _)
        reach(set, steps) ==
            IF steps = 0 THEN set
            ELSE reach(set \cup {j \in 1..n : \E i \in set : edge(i, j)}, steps - 1)
    IN  [i \in 1..n |-> reach({j \in 1..n : edge(i, j)}, n)]

C24_Cyclic(phases) == \E i \in 1..Len(phases) : i \in C24_Depends(phases)[i]

\* C24: every run on a plan whose dependency relation has a cycle is blocked, with
\* or without force and also when the validation hook is unavailable: it does not
\* end with exit status 0 and the plan file is as it was before the run.
C24_CyclicNeverPersisted ==
    (Loaded /\ C24_Cyclic(Pre.phases)) =>
        /\ last.exit # 0
        /\ plan_file = last.pre

\* C25: a run without the force flag leaves every completed phase and every
\* completed step completed, in memory and in the document it persists.
C25_CompletedTerminal ==
    (Loaded /\ ~last.args.force) =>
        \A i \in 1..Len(Pre.phases) :
            LET docs == {last.mem} \cup {Persisted[k] : k \in 1..Len(Persisted)} IN
            \A doc \in docs :
                /\ Pre.phases[i].status = "completed" => doc.phases[i].status = "completed"
                /\ \A k \in 1..Len(Pre.phases[i].steps) :
                      Pre.phases[i].steps[k].status = "completed"
                          => doc.phases[i].steps[k].status = "completed"

\* an unforced request to reopen a completed phase was rejected
C25_Witness ==
    /\ Loaded /\ ~last.args.force /\ OnlyPhaseStatus /\ PhaseResolved
    /\ Pre.phases[AddressedPhase].status = "completed"
    /\ last.args.status = Some("in_progress")
    /\ last.err = "IllegalTransition"
    /\ plan_file = last.pre
    /\ plan_file[1].phases[AddressedPhase].status = "completed"

\* C26: a run without the force flag does not move a phase to in_progress while
\* one of its dependency references resolves to a phase that is not completed.
C26_DependencyGate ==
    (Loaded /\ ~last.args.force) =>
        \A i \in 1..Len(Pre.phases) :
            (Pre.phases[i].status # "in_progress"
                /\ last.mem.phases[i].status = "in_progress")
            => C6_DependenciesCompleted(last.mem.phases, last.mem.phases[i])

C28_Archived ==
    plan_file = None /\ completed_dir # None /\ AllCompleted(completed_dir[1].phases)

\* startNext on a plan with nothing in progress and something left to do succeeds
C28_StartSucceeds ==
    (Loaded /\ OnlyStartNext /\ InProgress(Pre.phases) = {} /\ ~AllCompleted(Pre.phases))
        => /\ last.exit = 0
           /\ plan_file # None
           /\ Cardinality(InProgress(plan_file[1].phases)) = 1

\* C28: on an acyclic plan whose references resolve and whose phases are
\* not_started, in_progress (at most one) or completed, issuing startNext and
\* completeCurrent in turn with validation passing eventually leaves every phase
\* completed and the plan archived; and until then startNext succeeds whenever no
\* phase is in progress and some phase is not completed.  Each pair of commands
\* finishes one phase, so "eventually" is reached once the pair has been issued
\* once per phase (MaxRuns invocations for three phases).
C28_WorkflowProgress ==
    /\ C28_StartSucceeds
    /\ clock = MaxRuns => C28_Archived

====
